---- MODULE Spec2Model ----
(***************************************************************************)
(* A model of three command-line utilities of the repository:              *)
(*   - qotd/qotd.py             the JSON-backed quote store and its CLI,   *)
(*   - calculator/calculator.py the four-function arithmetic session loop, *)
(*   - sysmon/sysmon.py         the system monitor menu.                   *)
(* The three programs share nothing; each has its own specification        *)
(* (Spec, SpecCalc, SpecMon) over its own variables.                       *)
(*                                                                         *)
(* Strings the programs inspect character by character (quote texts,       *)
(* typed lines) are sequences of one-character strings.                    *)
(***************************************************************************)
EXTENDS Integers, Sequences, FiniteSets, TLC

VARIABLES
    \* qotd.py
    quotes,     \* QuoteManager.quotes: the in-memory collection
    file,       \* the backing file quotes.json: [state, content]
    last,       \* the last operation of the quote store: its call, its result, its output
    \* calculator.py
    calc_pc,    \* "prompt" (in the loop), "done" (left by break), "interrupted"
    calc_in,    \* what input() returned or raised at the last prompt
    calc_out,   \* what the last iteration printed
    calc_n,     \* number of prompts answered
    \* sysmon.py
    running,    \* SystemMonitor.running
    mon_pc,     \* "menu", "starting" (run_continuous sleeps 1 s), "monitoring", "exited"
    mon_call,   \* the run_continuous call in progress: the option it came from, its interval
    mon_in,     \* what was typed at the last menu prompt: choice and interval
    mon_out,    \* what the last step printed
    mon_n       \* number of refreshes of the monitoring in progress

qvars == <<quotes, file, last>>
cvars == <<calc_pc, calc_in, calc_out, calc_n>>
mvars == <<running, mon_pc, mon_call, mon_in, mon_out, mon_n>>
vars == <<qvars, cvars, mvars>>

(***************************************************************************)
(* Bounds and input sets of the quote store.                               *)
(***************************************************************************)
\* Largest in-memory collection the model lets add_quote grow.
MaxQuotes == 2

\* Texts and authors passed to add_quote or typed at the prompts.
Texts == { <<>>, <<" ">>, <<"a">>, <<"A">> }
Authors == { <<>>, <<"x">> }

\* Lines typed at the prompts of `quote add`, and the command lines of quote.
TypedTexts == { <<" ">>, <<" ", "a", " ">>, <<"A">> }
TypedAuthors == { <<" ">>, <<"x", " ">> }
Argvs == { <<>>, <<"help">>, <<"add">>, <<"list">>, <<"random">> }

\* Quote records an existing backing file may hold.
FileRecords ==
    { [text |-> <<"a">>, author |-> <<"x">>],
      [text |-> <<"A">>, author |-> <<"y">>],
      [text |-> <<"b">>, author |-> <<"x">>] }

\* Values datetime.now().strftime('%Y-%m-%d') may take.
Dates == { <<"2", "0", "2", "4", "-", "0", "1", "-", "0", "1">>,
           <<"2", "0", "2", "4", "-", "0", "1", "-", "0", "2">> }

(***************************************************************************)
(* str.lower() and str.strip() on the model's alphabet.                    *)
(***************************************************************************)
UpperCase == <<"A", "B", "C", "D", "E", "F", "G", "H", "I", "J", "K", "L", "M",
               "N", "O", "P", "Q", "R", "S", "T", "U", "V", "W", "X", "Y", "Z">>
LowerCase == <<"a", "b", "c", "d", "e", "f", "g", "h", "i", "j", "k", "l", "m",
               "n", "o", "p", "q", "r", "s", "t", "u", "v", "w", "x", "y", "z">>

LowerChar(c) ==
    IF \E i \in 1..Len(UpperCase) : UpperCase[i] = c
    THEN LowerCase[CHOOSE i \in 1..Len(UpperCase) : UpperCase[i] = c]
    ELSE c

Lower(s) == [i \in 1..Len(s) |-> LowerChar(s[i])]

IsSpace(c) == c = " "

RECURSIVE LStrip(_)
LStrip(s) ==
    IF s # <<>> /\ IsSpace(Head(s)) THEN LStrip(Tail(s)) ELSE s

RECURSIVE RStrip(_)
RStrip(s) ==
    IF s # <<>> /\ IsSpace(s[Len(s)]) THEN RStrip(SubSeq(s, 1, Len(s) - 1)) ELSE s

Strip(s) == RStrip(LStrip(s))

(***************************************************************************)
(* float(s) and float arithmetic.  A float is [k, n, d]: finite values     *)
(* are the fraction n/d (d a power of ten, as written); k is "nan", "inf"  *)
(* or "-inf" for the values float() makes of those words.  Rounding and    *)
(* overflow of finite results are not modelled.                            *)
(***************************************************************************)
Digits == <<"0", "1", "2", "3", "4", "5", "6", "7", "8", "9">>

IsDigit(c) == \E i \in 1..Len(Digits) : Digits[i] = c
DigitVal(c) == (CHOOSE i \in 1..Len(Digits) : Digits[i] = c) - 1

Fin(n, d) == [k |-> "fin", n |-> n, d |-> d]
NaN == [k |-> "nan", n |-> 0, d |-> 1]
Inf == [k |-> "inf", n |-> 0, d |-> 1]
NegInf == [k |-> "-inf", n |-> 0, d |-> 1]
NoVal == [k |-> "none", n |-> 0, d |-> 1]

\* The digits and the point of an unsigned decimal: its value, or not ok.
RECURSIVE Decimal(_, _, _, _, _)
Decimal(s, n, d, seenPoint, seenDigit) ==
    IF s = <<>> THEN [ok |-> seenDigit, val |-> Fin(n, d)]
    ELSE IF IsDigit(Head(s))
         THEN Decimal(Tail(s), 10 * n + DigitVal(Head(s)),
                      IF seenPoint THEN 10 * d ELSE d, seenPoint, TRUE)
    ELSE IF Head(s) = "." /\ ~seenPoint
         THEN Decimal(Tail(s), n, d, TRUE, seenDigit)
    ELSE [ok |-> FALSE, val |-> NoVal]

Neg(v) ==
    CASE v.k = "fin" -> Fin(0 - v.n, v.d)
      [] v.k = "inf" -> NegInf
      [] v.k = "-inf" -> Inf
      [] OTHER -> v

\* float(s): surrounding whitespace and case are ignored; a sign, then
\* nan, inf, infinity or a decimal.  ok is FALSE where float raises
\* ValueError.  (Exponents and digit separators are outside the model's
\* inputs.)
float(s) ==
    LET t == Lower(Strip(s))
        signed == t # <<>> /\ Head(t) \in {"+", "-"}
        body == IF signed THEN Tail(t) ELSE t
        mag == IF body = <<"n", "a", "n">> THEN [ok |-> TRUE, val |-> NaN]
               ELSE IF body \in { <<"i", "n", "f">>,
                                  <<"i", "n", "f", "i", "n", "i", "t", "y">> }
                    THEN [ok |-> TRUE, val |-> Inf]
               ELSE Decimal(body, 0, 1, FALSE, FALSE)
    IN  IF mag.ok /\ signed /\ Head(t) = "-"
        THEN [ok |-> TRUE, val |-> Neg(mag.val)]
        ELSE mag

\* Comparisons of floats; every comparison with nan is false.
IsZero(v) == v.k = "fin" /\ v.n = 0
Sign(v) ==
    CASE v.k = "inf" -> 1
      [] v.k = "-inf" -> -1
      [] v.k = "fin" -> (IF v.n > 0 THEN 1 ELSE IF v.n < 0 THEN -1 ELSE 0)
      [] OTHER -> 0
FromSign(sg) == IF sg > 0 THEN Inf ELSE IF sg < 0 THEN NegInf ELSE NaN

\* v < n/d for a finite bound n/d with d > 0.
LessThan(v, n, d) ==
    CASE v.k = "fin" -> v.n * d < n * v.d
      [] v.k = "-inf" -> TRUE
      [] OTHER -> FALSE

(***************************************************************************)
(* The JSON text of the backing file, as a sequence of tokens.  A key      *)
(* token stands for `"name":`; commas and layout are left out.             *)
(***************************************************************************)
LBrace == [t |-> "{", k |-> "", s |-> <<>>]
RBrace == [t |-> "}", k |-> "", s |-> <<>>]
LBrack == [t |-> "[", k |-> "", s |-> <<>>]
RBrack == [t |-> "]", k |-> "", s |-> <<>>]
Key(name) == [t |-> "key", k |-> name, s |-> <<>>]
Str(chars) == [t |-> "str", k |-> "", s |-> chars]

ParseFail == [ok |-> FALSE, type |-> "none", val |-> <<>>, next |-> 0]

\* dict[k] = v; a repeated key keeps the last value, as json.load does.
Put(d, k, v) == [x \in (DOMAIN d) \cup {k} |-> IF x = k THEN v ELSE d[x]]

\* The recursive-descent parse json.load performs: a value starting at
\* token i, the members of an object, the elements of an array.
RECURSIVE ParseValue(_, _), ParseMembers(_, _, _), ParseElements(_, _, _)
ParseValue(toks, i) ==
    IF i > Len(toks) THEN ParseFail
    ELSE CASE toks[i].t = "str" ->
                 [ok |-> TRUE, type |-> "str", val |-> toks[i].s, next |-> i + 1]
           [] toks[i].t = "{" -> ParseMembers(toks, i + 1, <<>>)
           [] toks[i].t = "[" -> ParseElements(toks, i + 1, <<>>)
           [] OTHER -> ParseFail

ParseMembers(toks, i, acc) ==
    IF i > Len(toks) THEN ParseFail
    ELSE IF toks[i].t = "}"
         THEN [ok |-> TRUE, type |-> "dict", val |-> acc, next |-> i + 1]
    ELSE IF toks[i].t = "key"
         THEN LET r == ParseValue(toks, i + 1)
              IN  IF r.ok THEN ParseMembers(toks, r.next, Put(acc, toks[i].k, r.val))
                  ELSE ParseFail
    ELSE ParseFail

ParseElements(toks, i, acc) ==
    IF i > Len(toks) THEN ParseFail
    ELSE IF toks[i].t = "]"
         THEN [ok |-> TRUE, type |-> "list", val |-> acc, next |-> i + 1]
    ELSE LET r == ParseValue(toks, i)
         IN  IF r.ok THEN ParseElements(toks, r.next, Append(acc, r.val))
             ELSE ParseFail

\* json.load(f): one value, and nothing after it.
json_load(toks) ==
    LET r == ParseValue(toks, 1)
    IN  IF r.ok /\ r.next = Len(toks) + 1 THEN r ELSE ParseFail

\* Mutant: the two values of a record are written under each other's key.
DumpQuote_swapped(q) ==
    <<LBrace, Key("text"), Str(q.author), Key("author"), Str(q.text), RBrace>>

\* The tokens json.dump writes for one quote record.
DumpQuote(q) ==
    <<LBrace, Key("text"), Str(q.text), Key("author"), Str(q.author), RBrace>>

RECURSIVE DumpQuotes(_)
DumpQuotes(qs) ==
    IF qs = <<>> THEN <<>> ELSE DumpQuote(Head(qs)) \o DumpQuotes(Tail(qs))

\* json.dump({'quotes': qs, 'last_updated': date}, f).
json_dump(qs, date) ==
    <<LBrace, Key("quotes"), LBrack>> \o DumpQuotes(qs)
        \o <<RBrack, Key("last_updated"), Str(date), RBrace>>

(***************************************************************************)
(* The backing file.  state is "missing" (no such file), "unreadable"      *)
(* (open raises: permission denied, a directory in its place; opening it   *)
(* for writing raises as well) or "present" (content holds its text).      *)
(***************************************************************************)
Missing == [state |-> "missing", content |-> <<>>]
Unreadable == [state |-> "unreadable", content |-> <<>>]
Present(toks) == [state |-> "present", content |-> toks]


(***************************************************************************)
(* What the program prints, one record per print call.                     *)
(***************************************************************************)
Msg(m) == [msg |-> m, q |-> <<>>, n |-> 0]

\* print_quote(quote)
print_quote(quote) == [msg |-> "quote", q |-> <<quote>>, n |-> 0]

\* print_help()
print_help == Msg("help")

(***************************************************************************)
(* QuoteManager.load_quotes: the collection it leaves in self.quotes.      *)
(* open raises for a missing or unreadable file, json.load for malformed   *)
(* text, data['quotes'] for a document that is no object (TypeError) or    *)
(* has no such key (KeyError); the handler catches all of them.            *)
(***************************************************************************)
LoadFailed == [quotes |-> <<>>, ok |-> FALSE, out |-> <<Msg("Error loading quotes")>>]

\* Mutant: the handler forgets to reset self.quotes.
load_quotes_keeps_old(self, f) ==
    LET stale == [LoadFailed EXCEPT !.quotes = self]
        data == json_load(f.content)
    IN  IF f.state # "present" THEN stale
        ELSE IF ~data.ok \/ data.type # "dict" THEN stale
        ELSE IF "quotes" \notin DOMAIN data.val THEN stale
        ELSE [quotes |-> data.val["quotes"], ok |-> TRUE, out |-> <<>>]

\* self is the collection the manager holds when the method is called.
load_quotes(self, f) ==
    IF f.state # "present" THEN LoadFailed
    ELSE LET data == json_load(f.content)
         IN  IF ~data.ok THEN LoadFailed
             ELSE IF data.type # "dict" THEN LoadFailed
             ELSE IF "quotes" \notin DOMAIN data.val THEN LoadFailed
             ELSE [quotes |-> data.val["quotes"], ok |-> TRUE, out |-> <<>>]

(***************************************************************************)
(* QuoteManager.save_quotes.  The environment decides how the write ends:  *)
(*   "ok"           the file holds the whole document;                     *)
(*   "open_failed"  open(..., 'w') raised, the file is as it was;          *)
(*   "write_failed" open truncated the file and json.dump raised part way  *)
(*                  (disk full, I/O error): the file holds a proper prefix *)
(*                  of the document, up to the cut.                        *)
(* The handler catches the exception and prints it.                        *)
(***************************************************************************)
Cuts == {"nothing", "header", "all_but_last"}

CutLen(doc, cut) ==
    CASE cut = "nothing" -> 0
      [] cut = "header" -> 3
      [] OTHER -> Len(doc) - 1

save_quotes(qs, f, date, outcome, cut) ==
    LET doc == json_dump(qs, date)
    IN  CASE outcome = "ok" ->
               [file |-> Present(doc), ok |-> TRUE, out |-> <<>>]
          [] outcome = "open_failed" ->
               [file |-> f, ok |-> FALSE, out |-> <<Msg("Error saving quotes")>>]
          [] OTHER ->
               [file |-> Present(SubSeq(doc, 1, CutLen(doc, cut))), ok |-> FALSE,
                out |-> <<Msg("Error saving quotes")>>]

\* QuoteManager.get_random_quote: the quotes random.choice may return,
\* none for an empty collection.
get_random_quote(qs) == { qs[i] : i \in 1..Len(qs) }

\* QuoteManager.list_quotes
list_quotes(qs) == qs

(***************************************************************************)
(* QuoteManager.add_quote.                                                 *)
(***************************************************************************)
\* any(q['text'].lower() == text.lower() for q in self.quotes)
IsDuplicate(qs, text) ==
    \E i \in 1..Len(qs) : Lower(qs[i].text) = Lower(text)

\* Mutant: the duplicate check compares the texts as they are.
add_quote_case_sensitive(qs, f, text, author, date, outcome, cut) ==
    IF text = <<>> \/ author = <<>>
    THEN [quotes |-> qs, file |-> f, ret |-> FALSE, save |-> "none", out |-> <<>>]
    ELSE IF \E i \in 1..Len(qs) : qs[i].text = text
    THEN [quotes |-> qs, file |-> f, ret |-> FALSE, save |-> "none",
          out |-> <<Msg("This quote already exists!")>>]
    ELSE LET new == Append(qs, [text |-> text, author |-> author])
             sv == save_quotes(new, f, date, outcome, cut)
         IN  [quotes |-> new, file |-> sv.file, ret |-> TRUE,
              save |-> IF sv.ok THEN "ok" ELSE "failed", out |-> sv.out]

\* Mutant: only the text is required.
add_quote_author_optional(qs, f, text, author, date, outcome, cut) ==
    IF text = <<>>
    THEN [quotes |-> qs, file |-> f, ret |-> FALSE, save |-> "none", out |-> <<>>]
    ELSE IF IsDuplicate(qs, text)
    THEN [quotes |-> qs, file |-> f, ret |-> FALSE, save |-> "none",
          out |-> <<Msg("This quote already exists!")>>]
    ELSE LET new == Append(qs, [text |-> text, author |-> author])
             sv == save_quotes(new, f, date, outcome, cut)
         IN  [quotes |-> new, file |-> sv.file, ret |-> TRUE,
              save |-> IF sv.ok THEN "ok" ELSE "failed", out |-> sv.out]

\* Mutant: the author takes part in the duplicate check.
add_quote_author_in_key(qs, f, text, author, date, outcome, cut) ==
    IF text = <<>> \/ author = <<>>
    THEN [quotes |-> qs, file |-> f, ret |-> FALSE, save |-> "none", out |-> <<>>]
    ELSE IF \E i \in 1..Len(qs) :
                Lower(qs[i].text) = Lower(text) /\ qs[i].author = author
    THEN [quotes |-> qs, file |-> f, ret |-> FALSE, save |-> "none",
          out |-> <<Msg("This quote already exists!")>>]
    ELSE LET new == Append(qs, [text |-> text, author |-> author])
             sv == save_quotes(new, f, date, outcome, cut)
         IN  [quotes |-> new, file |-> sv.file, ret |-> TRUE,
              save |-> IF sv.ok THEN "ok" ELSE "failed", out |-> sv.out]

\* Mutant: the stored text is normalised to lower case.
add_quote_lowercased(qs, f, text, author, date, outcome, cut) ==
    IF text = <<>> \/ author = <<>>
    THEN [quotes |-> qs, file |-> f, ret |-> FALSE, save |-> "none", out |-> <<>>]
    ELSE IF IsDuplicate(qs, text)
    THEN [quotes |-> qs, file |-> f, ret |-> FALSE, save |-> "none",
          out |-> <<Msg("This quote already exists!")>>]
    ELSE LET new == Append(qs, [text |-> Lower(text), author |-> author])
             sv == save_quotes(new, f, date, outcome, cut)
         IN  [quotes |-> new, file |-> sv.file, ret |-> TRUE,
              save |-> IF sv.ok THEN "ok" ELSE "failed", out |-> sv.out]

\* Mutant: the record is taken back out of memory when the save fails.
add_quote_rolls_back(qs, f, text, author, date, outcome, cut) ==
    IF text = <<>> \/ author = <<>>
    THEN [quotes |-> qs, file |-> f, ret |-> FALSE, save |-> "none", out |-> <<>>]
    ELSE IF IsDuplicate(qs, text)
    THEN [quotes |-> qs, file |-> f, ret |-> FALSE, save |-> "none",
          out |-> <<Msg("This quote already exists!")>>]
    ELSE LET new == Append(qs, [text |-> text, author |-> author])
             sv == save_quotes(new, f, date, outcome, cut)
         IN  [quotes |-> IF sv.ok THEN new ELSE qs, file |-> sv.file, ret |-> TRUE,
              save |-> IF sv.ok THEN "ok" ELSE "failed", out |-> sv.out]

add_quote(qs, f, text, author, date, outcome, cut) ==
    IF text = <<>> \/ author = <<>>
    THEN [quotes |-> qs, file |-> f, ret |-> FALSE, save |-> "none", out |-> <<>>]
    ELSE IF IsDuplicate(qs, text)
    THEN [quotes |-> qs, file |-> f, ret |-> FALSE, save |-> "none",
          out |-> <<Msg("This quote already exists!")>>]
    ELSE LET new == Append(qs, [text |-> text, author |-> author])
             sv == save_quotes(new, f, date, outcome, cut)
         IN  [quotes |-> new, file |-> sv.file, ret |-> TRUE,
              save |-> IF sv.ok THEN "ok" ELSE "failed", out |-> sv.out]

(***************************************************************************)
(* The last operation: op, its arguments, its return value ("none" for a   *)
(* method that returns nothing), whether save_quotes ran and how it ended  *)
(* ("none", "ok", "failed"), and what was printed.                         *)
(***************************************************************************)
Op(op, args, text, author, ret, save, out) ==
    [op |-> op, args |-> args, text |-> text, author |-> author,
     ret |-> ret, save |-> save, out |-> out]

RetOf(b) == IF b THEN "True" ELSE "False"

\* How the environment may end a save over file f: the date it stamps
\* and, for a write that fails, where the document is cut.
NoEnv == [outcome |-> "open_failed", date |-> <<>>, cut |-> "nothing"]

SaveEnvs(f) ==
    { NoEnv }
    \cup (IF f.state = "unreadable" THEN {}
          ELSE { [outcome |-> "ok", date |-> d, cut |-> "nothing"] : d \in Dates }
               \cup { [outcome |-> "write_failed", date |-> <<>>, cut |-> c] :
                          c \in Cuts })

(***************************************************************************)
(* calculator.py                                                           *)
(***************************************************************************)
\* add(a, b)
add(a, b) ==
    IF a.k = "nan" \/ b.k = "nan" THEN NaN
    ELSE IF a.k = "fin" /\ b.k = "fin" THEN Fin(a.n * b.d + b.n * a.d, a.d * b.d)
    ELSE IF a.k = "fin" THEN b
    ELSE IF b.k = "fin" \/ a.k = b.k THEN a
    ELSE NaN

\* subtract(a, b)
subtract(a, b) == add(a, Neg(b))

\* multiply(a, b)
multiply(a, b) ==
    IF a.k = "nan" \/ b.k = "nan" THEN NaN
    ELSE IF a.k = "fin" /\ b.k = "fin" THEN Fin(a.n * b.n, a.d * b.d)
    ELSE FromSign(Sign(a) * Sign(b))

\* Mutant: no test of the divisor; a / b raises ZeroDivisionError.
divide_unchecked(a, b) ==
    IF IsZero(b) THEN [raised |-> "ZeroDivisionError", val |-> NoVal]
    ELSE IF a.k = "nan" \/ b.k = "nan" THEN [raised |-> "none", val |-> NaN]
    ELSE IF a.k = "fin" /\ b.k = "fin"
         THEN [raised |-> "none",
               val |-> IF b.n > 0 THEN Fin(a.n * b.d, a.d * b.n)
                       ELSE Fin(0 - a.n * b.d, 0 - a.d * b.n)]
    ELSE IF a.k = "fin" THEN [raised |-> "none", val |-> Fin(0, 1)]
    ELSE IF b.k = "fin" THEN [raised |-> "none", val |-> FromSign(Sign(a) * Sign(b))]
    ELSE [raised |-> "none", val |-> NaN]

\* divide(a, b): raises ValueError("Cannot divide by zero") when b == 0.
divide(a, b) ==
    IF IsZero(b) THEN [raised |-> "ValueError", val |-> NoVal]
    ELSE IF a.k = "nan" \/ b.k = "nan" THEN [raised |-> "none", val |-> NaN]
    ELSE IF a.k = "fin" /\ b.k = "fin"
         THEN [raised |-> "none",
               val |-> IF b.n > 0 THEN Fin(a.n * b.d, a.d * b.n)
                       ELSE Fin(0 - a.n * b.d, 0 - a.d * b.n)]
    ELSE IF a.k = "fin" THEN [raised |-> "none", val |-> Fin(0, 1)]
    ELSE IF b.k = "fin" THEN [raised |-> "none", val |-> FromSign(Sign(a) * Sign(b))]
    ELSE [raised |-> "none", val |-> NaN]

\* str.split(): the maximal runs of non-whitespace characters.
RECURSIVE SplitFrom(_, _, _)
SplitFrom(s, word, acc) ==
    IF s = <<>> THEN (IF word = <<>> THEN acc ELSE Append(acc, word))
    ELSE IF IsSpace(Head(s))
         THEN SplitFrom(Tail(s), <<>>, IF word = <<>> THEN acc ELSE Append(acc, word))
    ELSE SplitFrom(Tail(s), Append(word, Head(s)), acc)

Split(s) == SplitFrom(s, <<>>, <<>>)

\* What one iteration prints: a message, its detail and, for a result, the value.
Say(m, detail, v) == [msg |-> m, detail |-> detail, val |-> v]

ExitWord == <<"e", "x", "i", "t">>

\* Lines typed at the calculator's prompt.
CalcLines ==
    { <<"e", "x", "i", "t">>, <<"E", "X", "I", "T">>, <<" ", "e", "x", "i", "t">>,
      <<"e", "x", "i", "t", " ", "n", "o", "w">>, <<>>, <<"1", " ", "+", " ", "2">>,
      <<"5", " ", "-", " ", "7">>, <<"2", " ", "*", " ", "0", ".", "5">>, <<"6", " ", "/", " ", "3">>,
      <<"1", "0", " ", "/", " ", "0">>, <<"1", " ", "/", " ", "0", ".", "0">>, <<"n", "a", "n", " ", "/", " ", "0">>,
      <<"1", "0", " ", "/", " ", "i", "n", "f">>, <<"a", " ", "+", " ", "1">>, <<"1", " ", "+", " ", "b">>,
      <<"1", " ", "%", " ", "2">>, <<"1", " ", "+">>, <<"1", " ", "+", " ", "2", " ", "+", " ", "3">> }

\* What input("> ") does: returns a line, or raises EOFError (end of
\* input) or KeyboardInterrupt (Ctrl+C).
CalcInputs ==
    { [kind |-> "line", line |-> l] : l \in CalcLines }
    \cup { [kind |-> "eof", line |-> <<>>], [kind |-> "interrupt", line |-> <<>>] }

\* Number of prompts the model lets a session answer.
MaxLines == 6

\* One iteration of the while loop of cli_app, on what input() gave.
\* KeyboardInterrupt is no Exception: neither handler catches it.
calculator_iteration(ev) ==
    IF ev.kind = "interrupt" THEN [pc |-> "interrupted", out |-> <<>>]
    ELSE IF ev.kind = "eof"
    THEN [pc |-> "prompt", out |-> <<Say("An error occurred", "EOFError", NoVal)>>]
    ELSE IF Lower(ev.line) = ExitWord THEN [pc |-> "done", out |-> <<>>]
    ELSE LET parts == Split(ev.line)
         IN  IF Len(parts) # 3
             THEN [pc |-> "prompt", out |-> <<Say("Invalid expression", "", NoVal)>>]
             ELSE LET a == float(parts[1])
                      op == parts[2]
                      b == float(parts[3])
                      r == divide(a.val, b.val)
                  IN  [pc |-> "prompt",
                       out |->
                         IF ~a.ok \/ ~b.ok
                         THEN <<Say("Error", "could not convert string to float", NoVal)>>
                         ELSE IF op = <<"+">>
                         THEN <<Say("Result", "", add(a.val, b.val))>>
                         ELSE IF op = <<"-">>
                         THEN <<Say("Result", "", subtract(a.val, b.val))>>
                         ELSE IF op = <<"*">>
                         THEN <<Say("Result", "", multiply(a.val, b.val))>>
                         ELSE IF op = <<"/">>
                         THEN (IF r.raised = "ValueError"
                               THEN <<Say("Error", "Cannot divide by zero", NoVal)>>
                               ELSE IF r.raised # "none"
                               THEN <<Say("An error occurred", r.raised, NoVal)>>
                               ELSE <<Say("Result", "", r.val)>>)
                         ELSE <<Say("Invalid operator", "", NoVal)>>]

(***************************************************************************)
(* sysmon.py                                                               *)
(***************************************************************************)
\* Lines typed at "Select option [1-4]: " and at the interval prompt.
Choices ==
    { <<"1">>, <<"2">>, <<"3">>, <<" ", "3", " ">>, <<"4">>,
      <<"e", "x", "i", "t">>, <<"E", "X", "I", "T">>, <<"5">>, <<>> }

Intervals ==
    { <<"0", ".", "1">>, <<"0", ".", "4", "9">>, <<"0", ".", "5">>, <<"2">>, <<"-", "1">>,
      <<"-", "i", "n", "f">>, <<"i", "n", "f">>, <<"n", "a", "n">>, <<"a", "b", "c">>, <<>> }

\* What input() does at a prompt: returns a line, or raises EOFError or
\* KeyboardInterrupt.  NoInput: the prompt was not reached.
Typed(lines) ==
    { [kind |-> "line", line |-> l] : l \in lines }
    \cup { [kind |-> "eof", line |-> <<>>], [kind |-> "interrupt", line |-> <<>>] }
NoInput == [kind |-> "none", line |-> <<>>]

\* How a call of display_info ends: it returns, a psutil call raises an
\* Exception, or Ctrl+C arrives while it samples the CPU for a second.
Displays == {"ok", "error", "interrupt"}

\* Number of refreshes the model lets one monitoring make.
MaxRefresh == 2

NoCall == [opt |-> "", interval |-> NoVal]

\* time.sleep(secs): the exception it raises, "none" if it sleeps.
time_sleep(v) ==
    CASE v.k = "nan" -> "ValueError"
      [] v.k \in {"inf", "-inf"} -> "OverflowError"
      [] v.k = "fin" /\ v.n < 0 -> "ValueError"
      [] OTHER -> "none"

Exiting(run) ==
    [pc |-> "exited", running |-> run, call |-> NoCall,
     out |-> <<"Exiting System Monitor...">>]
Menu(run, out) == [pc |-> "menu", running |-> run, call |-> NoCall, out |-> out]

\* SystemMonitor.run_continuous up to its first sleep: running is set,
\* the banner printed.
run_continuous(opt, interval) ==
    [pc |-> "starting", running |-> TRUE,
     call |-> [opt |-> opt, interval |-> interval],
     out |-> <<"Starting continuous monitoring... Press Ctrl+C to stop">>]

\* SystemMonitor.run_once
run_once(run, disp) ==
    CASE disp = "ok" -> Menu(run, <<"display_info", "System snapshot complete.">>)
      [] disp = "error" -> Menu(run, <<"Error">>)
      [] OTHER -> Exiting(run)

\* One iteration of the menu loop of cli_app: c and iv are what the two
\* prompts gave, disp how display_info ended.
sysmon_menu(run, c, iv, disp) ==
    IF c.kind = "interrupt" THEN Exiting(run)
    ELSE IF c.kind = "eof" THEN Menu(run, <<"Error">>)
    ELSE LET choice == Strip(c.line)
         IN  IF choice = <<"1">> THEN run_once(run, disp)
             ELSE IF choice = <<"2">> THEN run_continuous("2", Fin(2, 1))
             ELSE IF choice = <<"3">>
             THEN IF iv.kind = "interrupt" THEN Exiting(run)
                  ELSE IF iv.kind = "eof" THEN Menu(run, <<"Error">>)
                  ELSE LET interval == float(Strip(iv.line))
                       IN  IF ~interval.ok
                           THEN Menu(run, <<"Invalid interval. Please enter a number.">>)
                           ELSE IF LessThan(interval.val, 5, 10)
                           THEN Menu(run, <<"Minimum interval is 0.5 seconds">>)
                           ELSE run_continuous("3", interval.val)
             ELSE IF choice = <<"4">> \/ Lower(choice) = ExitWord THEN Exiting(run)
             ELSE Menu(run, <<"Invalid option. Please select 1-4.">>)

\* The inputs one iteration of the menu consumes.
MenuInputs ==
    UNION { IF c.kind = "line" /\ Strip(c.line) = <<"3">>
            THEN { [choice |-> c, interval |-> iv, disp |-> "ok"] : iv \in Typed(Intervals) }
            ELSE IF c.kind = "line" /\ Strip(c.line) = <<"1">>
            THEN { [choice |-> c, interval |-> NoInput, disp |-> dp] : dp \in Displays }
            ELSE { [choice |-> c, interval |-> NoInput, disp |-> "ok"] } :
            c \in Typed(Choices) }

\* The sleep of one second run_continuous makes before its try block: a
\* Ctrl+C there reaches the handler of cli_app, which exits.
run_continuous_sleep(call, interrupted) ==
    IF interrupted THEN Exiting(TRUE)
    ELSE [pc |-> "monitoring", running |-> TRUE, call |-> call, out |-> <<>>]

\* One pass of `while self.running:` in run_continuous, and where its
\* exceptions land in cli_app: KeyboardInterrupt in run_continuous
\* itself, ValueError in the handler of option 3, the rest in the
\* outer handler.
run_continuous_pass(call, disp, slept) ==
    LET stopped == Menu(FALSE, <<"Monitoring stopped.">>)
        raised == time_sleep(call.interval)
    IN  IF disp = "interrupt" THEN stopped
        ELSE IF disp = "error" THEN Menu(TRUE, <<"display_info", "Error">>)
        ELSE IF raised = "ValueError" /\ call.opt = "3"
        THEN Menu(TRUE, <<"display_info", "Refreshing",
                          "Invalid interval. Please enter a number.">>)
        ELSE IF raised # "none"
        THEN Menu(TRUE, <<"display_info", "Refreshing", "Error">>)
        ELSE IF slept = "interrupt" THEN stopped
        ELSE [pc |-> "monitoring", running |-> TRUE, call |-> call,
              out |-> <<"display_info", "Refreshing">>]

(***************************************************************************)
(* Initial states: a manager just constructed (__init__ sets quotes = []   *)
(* and calls load_quotes) over any backing file.                           *)
(***************************************************************************)
SeqsUpTo(S, n) == UNION { [1..k -> S] : k \in 0..n }

Date1 == CHOOSE d \in Dates : d[Len(d)] = "1"

InitFiles ==
    { Missing, Unreadable,
      Present(<<>>),                                           \* empty file
      Present(<<LBrace>>),                                     \* malformed
      Present(<<LBrack, RBrack>>),                             \* not an object
      Present(<<LBrace, Key("last_updated"), Str(Date1), RBrace>>) }  \* no quotes key
    \cup { Present(json_dump(qs, Date1)) : qs \in SeqsUpTo(FileRecords, MaxQuotes) }
    \cup { Present(<<LBrace, Key("last_updated"), Str(Date1), Key("quotes"), LBrack>>
                     \o DumpQuotes(qs) \o <<RBrack, RBrace>>) :
               qs \in SeqsUpTo(FileRecords, 1) }

QuoteManager_init(f) ==
    LET r == load_quotes(<<>>, f)
    IN  /\ file = f
        /\ quotes = r.quotes
        /\ last = Op("init", <<>>, <<>>, <<>>, "none", "none", r.out)

QuoteInit == \E f \in InitFiles : QuoteManager_init(f)

(***************************************************************************)
(* Actions: one per call of a method of the manager, and one per run of    *)
(* the command-line program.                                               *)
(***************************************************************************)
LoadQuotes ==
    LET r == load_quotes(quotes, file)
    IN  /\ quotes' = r.quotes
        /\ last' = Op("load", <<>>, <<>>, <<>>, "none", "none", r.out)
        /\ UNCHANGED file

SaveQuotes ==
    \E env \in SaveEnvs(file) :
        LET r == save_quotes(quotes, file, env.date, env.outcome, env.cut)
        IN  /\ file' = r.file
            /\ last' = Op("save", <<>>, <<>>, <<>>, "none",
                          IF r.ok THEN "ok" ELSE "failed", r.out)
            /\ UNCHANGED quotes

\* A save environment is drawn only when the call reaches save_quotes.
AddEnvs(qs, f, text, author) ==
    IF add_quote(qs, f, text, author, <<>>, "open_failed", "nothing").save = "none"
    THEN { NoEnv }
    ELSE SaveEnvs(f)

AddQuote ==
    \E text \in Texts, author \in Authors :
      \E env \in AddEnvs(quotes, file, text, author) :
          LET r == add_quote(quotes, file, text, author, env.date, env.outcome, env.cut)
          IN  /\ Len(r.quotes) <= MaxQuotes
              /\ quotes' = r.quotes
              /\ file' = r.file
              /\ last' = Op("add", <<>>, text, author, RetOf(r.ret), r.save, r.out)

(***************************************************************************)
(* cli_app of qotd.py: one run of the program.  manager is the manager it  *)
(* constructs (QuoteManager() loads the file); the run then dispatches on  *)
(* sys.argv[1:].  pick is the quote random.choice returns.                 *)
(***************************************************************************)
qotd_cli_app(manager, f, args, typedText, typedAuthor, env, pick) ==
    LET idle == [quotes |-> manager.quotes, file |-> f, ret |-> "none", save |-> "none"]
    IN  IF args = <<>> \/ args[1] = "help"
        THEN idle @@ [out |-> manager.out \o <<print_help>>]
        ELSE IF args[1] = "add"
        THEN LET text == Strip(typedText)
                 author == Strip(typedAuthor)
                 r == add_quote(manager.quotes, f, text, author,
                                env.date, env.outcome, env.cut)
             IN  [quotes |-> r.quotes, file |-> r.file, ret |-> RetOf(r.ret),
                  save |-> r.save,
                  out |-> manager.out \o <<Msg("Add a new quote:")>> \o r.out
                            \o <<IF r.ret THEN Msg("Quote added successfully!")
                                 ELSE Msg("Failed to add quote")>>]
        ELSE IF args[1] = "list"
        THEN LET qs == list_quotes(manager.quotes)
             IN  idle @@ [out |-> manager.out
                            \o <<[msg |-> "Found quotes", q |-> <<>>, n |-> Len(qs)]>>
                            \o [i \in 1..Len(qs) |-> print_quote(qs[i])]]
        ELSE IF manager.quotes = <<>>
        THEN idle @@ [out |-> manager.out \o <<Msg("No quotes found!")>>]
        ELSE idle @@ [out |-> manager.out \o <<print_quote(pick)>>]

\* The inputs one run consumes: the two prompts and the save environment
\* of `add`, the random choice of the default command.
CliInputs(qs, f, args) ==
    LET none == [text |-> <<>>, author |-> <<>>, env |-> NoEnv,
                 pick |-> [text |-> <<>>, author |-> <<>>]]
    IN  IF args # <<>> /\ args[1] = "add"
        THEN UNION { { [none EXCEPT !.text = ta[1], !.author = ta[2], !.env = e] :
                           e \in AddEnvs(qs, f, Strip(ta[1]), Strip(ta[2])) } :
                       ta \in TypedTexts \X TypedAuthors }
        ELSE IF args # <<>> /\ args[1] = "random" /\ qs # <<>>
        THEN { [none EXCEPT !.pick = q] : q \in get_random_quote(qs) }
        ELSE { none }

CliApp ==
    LET manager == load_quotes(<<>>, file)
    IN  \E args \in Argvs :
          \E in \in CliInputs(manager.quotes, file, args) :
            LET r == qotd_cli_app(manager, file, args, in.text, in.author, in.env, in.pick)
            IN  /\ Len(r.quotes) <= MaxQuotes
                /\ quotes' = r.quotes
                /\ file' = r.file
                /\ last' = Op("cli", args, in.text, in.author, r.ret, r.save, r.out)

(***************************************************************************)
(* The calculator session.                                                 *)
(***************************************************************************)
CalcInit ==
    /\ calc_pc = "prompt"
    /\ calc_in = [kind |-> "none", line |-> <<>>]
    /\ calc_out = <<Say("KOS Calculator", "", NoVal)>>
    /\ calc_n = 0

\* One prompt of the loop and the iteration it starts.
CalcPrompt ==
    /\ calc_pc = "prompt"
    /\ calc_n < MaxLines
    /\ \E ev \in CalcInputs :
          LET r == calculator_iteration(ev)
          IN  /\ calc_pc' = r.pc
              /\ calc_out' = r.out
              /\ calc_in' = ev
              /\ calc_n' = calc_n + 1

(***************************************************************************)
(* The monitor menu.                                                       *)
(***************************************************************************)
MonInit ==
    /\ running = FALSE
    /\ mon_pc = "menu"
    /\ mon_call = NoCall
    /\ mon_in = [choice |-> NoInput, interval |-> NoInput]
    /\ mon_out = <<"KOS System Monitor">>
    /\ mon_n = 0

MonMenu ==
    /\ mon_pc = "menu"
    /\ \E in \in MenuInputs :
          LET r == sysmon_menu(running, in.choice, in.interval, in.disp)
          IN  /\ mon_pc' = r.pc
              /\ running' = r.running
              /\ mon_call' = r.call
              /\ mon_out' = r.out
              /\ mon_in' = [choice |-> in.choice, interval |-> in.interval]
              /\ mon_n' = 0

MonStart ==
    /\ mon_pc = "starting"
    /\ \E interrupted \in BOOLEAN :
          LET r == run_continuous_sleep(mon_call, interrupted)
          IN  /\ mon_pc' = r.pc
              /\ running' = r.running
              /\ mon_call' = r.call
              /\ mon_out' = r.out
              /\ UNCHANGED <<mon_in, mon_n>>

MonRefresh ==
    /\ mon_pc = "monitoring"
    /\ \E disp \in Displays, slept \in {"ok", "interrupt"} :
          LET r == run_continuous_pass(mon_call, disp, slept)
          IN  /\ r.pc = "monitoring" => mon_n < MaxRefresh
              /\ mon_pc' = r.pc
              /\ running' = r.running
              /\ mon_call' = r.call
              /\ mon_out' = r.out
              /\ mon_n' = IF r.pc = "monitoring" THEN mon_n + 1 ELSE 0
              /\ UNCHANGED mon_in

(***************************************************************************)
(* Specifications: one per program, the other two programs at rest.        *)
(***************************************************************************)
QuoteIdle == QuoteManager_init(Missing)

Init == QuoteInit /\ CalcInit /\ MonInit
Next ==
    \/ LoadQuotes /\ UNCHANGED <<cvars, mvars>>
    \/ SaveQuotes /\ UNCHANGED <<cvars, mvars>>
    \/ AddQuote /\ UNCHANGED <<cvars, mvars>>
    \/ CliApp /\ UNCHANGED <<cvars, mvars>>
Spec == Init /\ [][Next]_vars

InitCalc == QuoteIdle /\ CalcInit /\ MonInit
NextCalc == CalcPrompt /\ UNCHANGED <<qvars, mvars>>
SpecCalc == InitCalc /\ [][NextCalc]_vars

InitMon == QuoteIdle /\ CalcInit /\ MonInit
NextMon ==
    \/ MonMenu /\ UNCHANGED <<qvars, cvars>>
    \/ MonStart /\ UNCHANGED <<qvars, cvars>>
    \/ MonRefresh /\ UNCHANGED <<qvars, cvars>>
SpecMon == InitMon /\ [][NextMon]_vars

(***************************************************************************)
(* Properties of the quote store.                                          *)
(*                                                                         *)
(* A step is described by last' (the operation that made it).  The         *)
(* add_quote call of a step is the direct call of AddQuote, or the call    *)
(* `quote add` makes on the manager it has just constructed.               *)
(***************************************************************************)
IsAddStep == last'.op = "add" \/ (last'.op = "cli" /\ last'.args = <<"add">>)

\* The collection, text and author add_quote was called with.
StoreBefore == IF last'.op = "add" THEN quotes ELSE load_quotes(<<>>, file).quotes
TextPassed == IF last'.op = "add" THEN last'.text ELSE Strip(last'.text)
AuthorPassed == IF last'.op = "add" THEN last'.author ELSE Strip(last'.author)

\* Equality of two texts under case-insensitive comparison.
SameTextIgnoringCase(s, t) ==
    /\ Len(s) = Len(t)
    /\ \A i \in 1..Len(s) : LowerChar(s[i]) = LowerChar(t[i])

HasTextOf(qs, text) == \E i \in 1..Len(qs) : SameTextIgnoringCase(qs[i].text, text)

NoDuplicates(qs) ==
    \A i, j \in 1..Len(qs) : i # j => ~SameTextIgnoringCase(qs[i].text, qs[j].text)

\* The step rejected the call: failure, memory and file as they were, no save.
Rejected ==
    /\ last'.ret = "False"
    /\ quotes' = StoreBefore
    /\ file' = file
    /\ last'.save = "none"

\* The file holds a document whose quotes array is the in-memory collection.
InSync(qs, f) == load_quotes(<<>>, f).ok /\ load_quotes(<<>>, f).quotes = qs

\* C1: add_quote with a text equal, case-insensitively, to the text of a
\* stored quote returns failure whatever the author, leaves the collection
\* as it was and does not save, so the file is unchanged.
C1_DuplicateRejected ==
    [][(IsAddStep /\ HasTextOf(StoreBefore, TextPassed)) => Rejected]_vars

\* C1 witness: a call rejected as a duplicate of a quote whose text differs
\* in case and whose author differs.
C1_Witness ==
    /\ last.op = "add" /\ last.ret = "False"
    /\ last.out = <<Msg("This quote already exists!")>>
    /\ \E i \in 1..Len(quotes) :
          /\ quotes[i].text # last.text
          /\ SameTextIgnoringCase(quotes[i].text, last.text)
          /\ quotes[i].author # last.author

\* C2 as stated: add_quote with a text or author that is empty after
\* trimming, whitespace-only strings passed directly included, returns
\* failure without appending and without saving.
C2_Original ==
    [][(last'.op = "add" /\ (Strip(last'.text) = <<>> \/ Strip(last'.author) = <<>>))
          => Rejected]_vars

\* C2 amended: add_quote with an empty text or an empty author returns
\* failure without appending and without saving; `quote add` trims what
\* was typed before the call, so there a text or author that is empty
\* after trimming is rejected.
C2_EmptyRejected ==
    [][(IsAddStep /\ (TextPassed = <<>> \/ AuthorPassed = <<>>)) => Rejected]_vars

\* C2 witness: `quote add` rejected a whitespace-only text over a store
\* that holds quotes.
C2_Witness ==
    /\ last.op = "cli" /\ last.args = <<"add">>
    /\ last.text # <<>> /\ Strip(last.text) = <<>>
    /\ Strip(last.author) # <<>>
    /\ last.ret = "False" /\ last.save = "none"
    /\ quotes # <<>>

\* C3 as stated: in every reachable state no two quotes of the in-memory
\* collection have texts equal under case-insensitive comparison.
C3_Original == NoDuplicates(quotes)

\* C3 amended: no operation creates a duplicate.  load installs the file's
\* quotes array as it is; add_quote and save leave a collection without
\* two case-insensitively equal texts without them, whatever the authors.
C3_NoNewDuplicate ==
    [][(IF IsAddStep THEN NoDuplicates(StoreBefore)
        ELSE IF last'.op \in {"load", "cli"} THEN NoDuplicates(load_quotes(<<>>, file).quotes)
        ELSE NoDuplicates(quotes))
          => NoDuplicates(quotes')]_vars

\* C3 witness: an accepted call has grown the collection to two quotes or
\* more, and no two of them have the same text in any case.
C3_Witness ==
    /\ last.op = "add" /\ last.ret = "True"
    /\ Len(quotes) >= 2
    /\ NoDuplicates(quotes)

\* C4: add_quote with non-empty text and author and no case-insensitive
\* duplicate returns success, appends exactly the record {text, author} at
\* the end (the rest untouched, the case of the text preserved) and saves;
\* when the save succeeds the file's quotes array is the collection.
C4_AddAppendsAndSaves ==
    [][(/\ IsAddStep
        /\ TextPassed # <<>> /\ AuthorPassed # <<>>
        /\ ~HasTextOf(StoreBefore, TextPassed))
          => /\ last'.ret = "True"
             /\ quotes' = StoreBefore \o <<[text |-> TextPassed, author |-> AuthorPassed]>>
             /\ last'.save \in {"ok", "failed"}
             /\ last'.save = "ok" => InSync(quotes', file')]_vars

\* C4 witness: an upper-case text appended after an existing quote and saved.
C4_Witness ==
    /\ last.op = "add" /\ last.ret = "True" /\ last.save = "ok"
    /\ Len(quotes) >= 2
    /\ last.text = <<"A">>
    /\ quotes[Len(quotes)] = [text |-> <<"A">>, author |-> last.author]

\* C5: a load that follows a successful save yields the collection that
\* was saved: same quotes, same content, same order.
C5_RoundTrip ==
    [][(last.save = "ok" /\ last'.op = "load") => quotes' = quotes]_vars

\* C5 witness: a load has read back two quotes, the second of which only a
\* save can have written to the file.
C5_Witness ==
    /\ last.op = "load" /\ last.out = <<>>
    /\ Len(quotes) = 2
    /\ quotes[2].text = <<" ">>

\* The tokens of the file hold the complete array of the quotes qs.
HoldsArray(f, qs) ==
    LET arr == <<Key("quotes"), LBrack>> \o DumpQuotes(qs) \o <<RBrack>>
    IN  /\ f.state = "present"
        /\ \E i \in 1..Len(f.content) :
              SubSeq(f.content, i, i + Len(arr) - 1) = arr

\* C6: whatever the state of the file, load returns, and the collection is
\* then the complete array of the file or empty; after a load that
\* reported an error it is empty, whatever it held before.
C6_LoadAllOrNothing ==
    [][last'.op = "load"
          => /\ last'.ret = "none"
             /\ quotes' = <<>> \/ HoldsArray(file, quotes')
             /\ last'.out # <<>> => quotes' = <<>>
             /\ (file.state # "present" \/ ~json_load(file.content).ok)
                    => (quotes' = <<>> /\ last'.out = <<Msg("Error loading quotes")>>)]_vars

\* C6 witness: a load of a file cut short by a failed write, which holds
\* the text of a quote, has left the collection empty.
C6_Witness ==
    /\ last.op = "load" /\ last.out = <<Msg("Error loading quotes")>>
    /\ quotes = <<>>
    /\ file.state = "present" /\ Len(file.content) > 3

\* C7 as stated: once memory and file have diverged, they stay so until
\* the next successful save.
C7_Original ==
    [][(~InSync(quotes, file) /\ last'.save # "ok") => ~InSync(quotes', file')]_vars

\* C7 amended: a failing save is reported, not raised, and leaves the
\* collection as it is; when the save of add_quote fails, memory holds
\* the new quote and the file does not; the divergence lasts until the
\* next successful save or the next load (a restart of the program), and
\* after a successful save the file's quotes array is the collection.
C7_FailedSave ==
    [][/\ last'.save = "failed"
            => /\ Msg("Error saving quotes") \in { last'.out[i] : i \in 1..Len(last'.out) }
               /\ last'.op = "save" => quotes' = quotes
               /\ IsAddStep =>
                     /\ quotes' = StoreBefore
                                    \o <<[text |-> TextPassed, author |-> AuthorPassed]>>
                     /\ ~InSync(quotes', file')
       /\ (~InSync(quotes, file) /\ last'.save # "ok" /\ last'.op \notin {"load", "cli"})
            => ~InSync(quotes', file')
       /\ last'.save = "ok" => InSync(quotes', file')]_vars

\* C7 witness: add_quote returned success although its save failed, and
\* the file, which is still well-formed, lacks the new quote.
C7_Witness ==
    /\ last.op = "add" /\ last.ret = "True" /\ last.save = "failed"
    /\ load_quotes(<<>>, file).ok
    /\ quotes = load_quotes(<<>>, file).quotes \o <<[text |-> last.text, author |-> last.author]>>

\* The last thing a run printed.
LastOut == last.out[Len(last.out)]

\* C8: the dispatch of the quote tool: no argument prints one random
\* quote of the collection (or the no-quotes notice), add runs the add
\* flow, list prints every quote, help prints the usage text.
C8_Dispatch ==
    last.op = "cli" =>
        /\ last.args = <<>> =>
              IF quotes = <<>> THEN LastOut = Msg("No quotes found!")
              ELSE LastOut.msg = "quote" /\ LastOut.q[1] \in get_random_quote(quotes)
        /\ last.args = <<"add">> => last.ret \in {"True", "False"}
        /\ last.args = <<"list">> =>
              \E k \in 1..Len(last.out) :
                  /\ last.out[k].msg = "Found quotes"
                  /\ [i \in 1..(Len(last.out) - k) |-> last.out[k + i]]
                        = [i \in 1..Len(quotes) |-> print_quote(quotes[i])]
        /\ last.args = <<"help">> => LastOut = print_help

(***************************************************************************)
(* Properties of the calculator session.                                   *)
(***************************************************************************)
\* The step answered a prompt with a line.
LineEntered == calc_pc = "prompt" /\ calc_in'.kind = "line"

\* The tokens of the line entered, and whether a token is a number.
TokensEntered == Split(calc_in'.line)
IsNumber(tok) == float(tok).ok

\* The loop goes on: the session is at its prompt again.
GoesOn == calc_pc' = "prompt"

\* What C9 says of the lines that are in error: each is reported, and the
\* loop goes on.
ErrorsReported ==
    /\ (/\ Len(TokensEntered) = 3
        /\ IsNumber(TokensEntered[1])
        /\ TokensEntered[2] = <<"/">>
        /\ IsNumber(TokensEntered[3]) /\ IsZero(float(TokensEntered[3]).val))
          => calc_out' = <<Say("Error", "Cannot divide by zero", NoVal)>> /\ GoesOn
    /\ (Len(TokensEntered) # 3 /\ calc_pc' # "done")
          => calc_out' = <<Say("Invalid expression", "", NoVal)>> /\ GoesOn
    /\ (Len(TokensEntered) = 3
          /\ (~IsNumber(TokensEntered[1]) \/ ~IsNumber(TokensEntered[3])))
          => Len(calc_out') = 1 /\ calc_out'[1].msg = "Error" /\ GoesOn
    /\ (/\ Len(TokensEntered) = 3
        /\ IsNumber(TokensEntered[1]) /\ IsNumber(TokensEntered[3])
        /\ TokensEntered[2] \notin { <<"+">>, <<"-">>, <<"*">>, <<"/">> })
          => calc_out' = <<Say("Invalid operator", "", NoVal)>> /\ GoesOn

\* C9 as stated: whatever the lines entered, the session terminates when
\* and only when the line `exit` is entered; a division by zero, a line
\* that is not three tokens, a non-numeric operand and an unknown
\* operator are each reported and the loop goes on.
C9_Original ==
    [][LineEntered =>
          /\ (calc_pc' # "prompt") <=> (calc_in'.line = ExitWord)
          /\ ErrorsReported]_vars

\* C9 amended: the session terminates when and only when a line equal to
\* `exit` in any letter case (exit, EXIT, Exit) is entered; the rest as
\* stated.
C9_ExitInAnyCase ==
    [][LineEntered =>
          /\ (calc_pc' # "prompt") <=> (Lower(calc_in'.line) = ExitWord)
          /\ calc_pc' \in {"prompt", "done"}
          /\ ErrorsReported]_vars

\* C9 witness: a division by zero was reported and the session is still
\* at its prompt, after at least one earlier line.
C9_Witness ==
    /\ calc_pc = "prompt"
    /\ calc_n >= 2
    /\ calc_in = [kind |-> "line", line |-> <<"1", "0", " ", "/", " ", "0">>]
    /\ calc_out = <<Say("Error", "Cannot divide by zero", NoVal)>>

(***************************************************************************)
(* Properties of the monitor menu.                                         *)
(***************************************************************************)
\* The step took option 3 and read a numeric interval.
CustomInterval ==
    /\ mon_pc = "menu"
    /\ mon_in'.choice.kind = "line" /\ Strip(mon_in'.choice.line) = <<"3">>
    /\ mon_in'.interval.kind = "line" /\ float(mon_in'.interval.line).ok

IntervalTyped == float(mon_in'.interval.line).val

\* The interval is below, or at least, 0.5 seconds.
BelowHalf(v) == v.k = "-inf" \/ (v.k = "fin" /\ 2 * v.n < v.d)
AtLeastHalf(v) == v.k = "inf" \/ (v.k = "fin" /\ 2 * v.n >= v.d)

\* C10: option 3 with a numeric interval below 0.5 seconds is rejected
\* with the minimum-interval message, monitoring is not started (running
\* is left as it was) and the menu prompts again; monitoring with a
\* custom interval starts only when the interval is at least 0.5 seconds.
C10_MinimumInterval ==
    [][CustomInterval =>
          /\ BelowHalf(IntervalTyped) =>
                /\ mon_out' = <<"Minimum interval is 0.5 seconds">>
                /\ running' = running
                /\ mon_pc' = "menu"
          /\ (mon_pc' = "starting" \/ running' # running) => AtLeastHalf(IntervalTyped)]_vars

====
